---- MODULE Spec2Model ----
(***************************************************************************)
(* Verification model of three auxiliary scripts of the SCons repository:  *)
(*   testing/framework/TimeSCons.py  the timing harness (class TimeSCons), *)
(*   bench/is_types.py               the is_Dict/is_List/is_String bench,  *)
(*   test/TEMPFILE/...               (one linear regression script).       *)
(*                                                                         *)
(* Four specifications share the variables:                                *)
(*   Spec       TimeSCons.__init__ and main() with its phases              *)
(*   SpecStats  TimeSCons.collect_stats as a function of its input text    *)
(*   SpecCopy   TimeSCons.copy_timing_configuration over a directory tree  *)
(*   SpecTypes  the type predicates of bench/is_types.py                   *)
(***************************************************************************)
EXTENDS Integers, Sequences, FiniteSets, TLC

VARIABLES
    \* ---- collect_stats (SpecStats)
    input,          \* the text handed to collect_stats
    result,         \* the dict collect_stats returned
    spc,            \* "ready" before the call, "done" after it
    statList,       \* the module-level StatList
    \* ---- copy_timing_configuration (SpecCopy)
    tree,           \* the source tree: a set of nodes [path, kind]
    dest,           \* the destination tree, same shape
    walk,           \* os.walk's pending directories (a stack of paths)
    visited,        \* directories os.walk has yielded
    cpc,            \* "setup", "copy", "done", "raised"
    cerr,           \* the exception the copy raised, "none" if none
    \* ---- is_types.py (SpecTypes)
    obj,            \* the object handed to the predicates
    called,         \* the predicate called last, "none" before any call
    answer,         \* what that call did: [raised, value]
    \* ---- TimeSCons.__init__ and main() (Spec)
    pc,             \* where the script is: "new", "main", "uptime", "startup",
                    \* "full", "null", "calibration", "done", "raised"
    err,            \* the uncaught exception, "none" while there is none
    variables,      \* self.variables
    calibrate_variables, \* self.calibrate_variables
    calibrate,      \* self.calibrate
    mainKw,         \* main()'s own kw dict
    lastRun,        \* the command startTime/endTime were last taken around
    log             \* what happened, in order: runs, echoes, lines written

mainVars == <<pc, err, variables, calibrate_variables, calibrate, mainKw,
              lastRun, log>>
statsVars == <<input, result, spc, statList>>
copyVars == <<tree, dest, walk, visited, cpc, cerr>>
typesVars == <<obj, called, answer>>
vars == <<mainVars, statsVars, copyVars, typesVars>>

(***************************************************************************)
(* Python values.  A str is a sequence of symbols; an int is an Int.  The  *)
(* two are kept apart by a tag, as Python keeps '3' and 3 apart.           *)
(***************************************************************************)
PyInt(n) == [type |-> "int", int |-> n, str |-> <<>>]
PyStr(s) == [type |-> "str", int |-> 0, str |-> s]

(***************************************************************************)
(* Text.  A text is a flat sequence of symbols: single characters, the     *)
(* newline NL, the word "seconds", and each marker phrase of a Stat        *)
(* pattern as one symbol (the phrases are literal, share no prefix, and    *)
(* the patterns never match inside one).                                   *)
(***************************************************************************)
NL == "NL"
Digits == {"0", "1", "2", "3", "4", "5", "6", "7", "8", "9"}
Space == {" ", NL}

DigitVal(c) ==
    CASE c = "0" -> 0 [] c = "1" -> 1 [] c = "2" -> 2 [] c = "3" -> 3
      [] c = "4" -> 4 [] c = "5" -> 5 [] c = "6" -> 6 [] c = "7" -> 7
      [] c = "8" -> 8 [] c = "9" -> 9

\* int(s) for s matched by \d+
RECURSIVE PyIntOf(_)
PyIntOf(s) ==
    IF s = <<>> THEN 0
    ELSE 10 * PyIntOf(SubSeq(s, 1, Len(s) - 1)) + DigitVal(s[Len(s)])

KB == 1024

\* (mutant) the conversion without the division
ConvertNoDivide(s) == PyInt(PyIntOf(s))

\* convert=lambda s: int(s) // 1024
ConvertKBytes(s) == PyInt(PyIntOf(s) \div KB)

\* Stat.__init__: convert is None -> lambda x: x
ConvertDefault(s) == PyStr(s)

(***************************************************************************)
(* Stat and StatList.  expression is  <marker>\s+(<class>+)<tail>  with    *)
(* class \d or [\d.] and tail empty or ' seconds'.                         *)
(***************************************************************************)
Stat(name, units, marker, class, tail, convert) ==
    [name |-> name, units |-> units, marker |-> marker, class |-> class,
     tail |-> tail, convert |-> convert]

SecondsTail == <<" ", "seconds">>

StatList ==
    << Stat("memory-initial", "kbytes",
            "Memory before reading SConscript files:", Digits, <<>>, "kbytes"),
       Stat("memory-prebuild", "kbytes",
            "Memory before building targets:", Digits, <<>>, "kbytes"),
       Stat("memory-final", "kbytes",
            "Memory after building targets:", Digits, <<>>, "kbytes"),
       Stat("time-sconscript", "seconds",
            "Total SConscript file execution time:", Digits \cup {"."},
            SecondsTail, "default"),
       Stat("time-scons", "seconds",
            "Total SCons execution time:", Digits \cup {"."},
            SecondsTail, "default"),
       Stat("time-commands", "seconds",
            "Total command execution time:", Digits \cup {"."},
            SecondsTail, "default"),
       Stat("time-total", "seconds",
            "Total build time:", Digits \cup {"."},
            SecondsTail, "default") >>

StatNames == {StatList[i].name : i \in 1..Len(StatList)}
MemoryStats == {"memory-initial", "memory-prebuild", "memory-final"}

\* stat.convert(s)
Convert(stat, s) ==
    IF stat.convert = "kbytes" THEN ConvertKBytes(s) ELSE ConvertDefault(s)

(***************************************************************************)
(* re: the greedy run of symbols of a class from position i, a literal at  *)
(* position i, a match of a Stat expression at position i, and search().   *)
(* The classes \s, \d, [\d.] and the first symbol of each tail are         *)
(* pairwise disjoint, so backtracking never finds a match greed missed.    *)
(***************************************************************************)
RECURSIVE RunLen(_, _, _)
RunLen(text, i, class) ==
    IF i <= Len(text) /\ text[i] \in class
    THEN 1 + RunLen(text, i + 1, class) ELSE 0

LiteralAt(text, i, lit) ==
    /\ i + Len(lit) - 1 <= Len(text)
    /\ \A k \in 1..Len(lit) : text[i + k - 1] = lit[k]

NoMatch == [matched |-> FALSE, group |-> <<>>]

MatchAt(stat, text, i) ==
    IF i > Len(text) \/ text[i] # stat.marker THEN NoMatch
    ELSE LET ws == RunLen(text, i + 1, Space)
             g  == i + 1 + ws
             n  == RunLen(text, g, stat.class)
         IN  IF ws >= 1 /\ n >= 1 /\ LiteralAt(text, g + n, stat.tail)
             THEN [matched |-> TRUE, group |-> SubSeq(text, g, g + n - 1)]
             ELSE NoMatch

\* stat.expression.search(input): the leftmost match
RECURSIVE SearchFrom(_, _, _)
SearchFrom(stat, text, i) ==
    IF i > Len(text) THEN NoMatch
    ELSE LET m == MatchAt(stat, text, i)
         IN  IF m.matched THEN m ELSE SearchFrom(stat, text, i + 1)

Search(stat, text) == SearchFrom(stat, text, 1)

\* TimeSCons.collect_stats
collect_stats(text) ==
    LET m   == [i \in 1..Len(StatList) |-> Search(StatList[i], text)]
        hit == {i \in 1..Len(StatList) : m[i].matched}
        ix  == [nm \in {StatList[i].name : i \in hit} |->
                   CHOOSE i \in hit : StatList[i].name = nm]
    IN  [nm \in DOMAIN ix |->
            [value |-> Convert(StatList[ix[nm]], m[ix[nm]].group),
             units |-> StatList[ix[nm]].units]]

(***************************************************************************)
(* More Python values: None, a float (kept as its decimal text), a dict    *)
(* in insertion order (a sequence of [name, value] items), str(), int()    *)
(* and float() of a value.                                                 *)
(***************************************************************************)
PyNone == [type |-> "None", int |-> 0, str |-> <<>>]
PyFloat(s) == [type |-> "float", int |-> 0, str |-> s]
PyDict(items) == [type |-> "dict", items |-> items]

DigitSym(d) ==
    CASE d = 0 -> "0" [] d = 1 -> "1" [] d = 2 -> "2" [] d = 3 -> "3"
      [] d = 4 -> "4" [] d = 5 -> "5" [] d = 6 -> "6" [] d = 7 -> "7"
      [] d = 8 -> "8" [] d = 9 -> "9"

RECURSIVE StrOfNat(_)
StrOfNat(n) ==
    IF n < 10 THEN <<DigitSym(n)>>
    ELSE StrOfNat(n \div 10) \o <<DigitSym(n % 10)>>

\* '%s' % value
PyStrOf(v) == IF v.type = "int" THEN StrOfNat(v.int) ELSE v.str

AllDigits(s) == s # <<>> /\ \A k \in 1..Len(s) : s[k] \in Digits

\* the decimal texts float() accepts among strings of digits and dots
IsFloatText(s) ==
    /\ \A k \in 1..Len(s) : s[k] \in Digits \cup {"."}
    /\ \E k \in 1..Len(s) : s[k] \in Digits
    /\ Cardinality({k \in 1..Len(s) : s[k] = "."}) <= 1

\* int(value) raises ValueError
IntRaises(v) == v.type = "str" /\ ~AllDigits(v.str)
\* int(value) where it does not raise
IntOf(v) == IF v.type = "int" THEN v ELSE PyInt(PyIntOf(v.str))
\* (mutant) no text is rejected
FloatRaises_never(v) == FALSE

\* float(value) raises ValueError
FloatRaises(v) == v.type = "str" /\ ~IsFloatText(v.str)
\* float(value) where it does not raise
FloatOf(v) == IF v.type = "int" THEN PyFloat(StrOfNat(v.int)) ELSE PyFloat(v.str)
\* (mutant) the value compared as text with '0.0'
FloatIsZero_text(v) == v.str = <<"0", ".", "0">>

\* float(value) == 0.0 for a value float() accepts
FloatIsZero(v) ==
    IF v.type = "int" THEN v.int = 0
    ELSE \A k \in 1..Len(v.str) : v.str[k] \in {"0", "."}

DictGet(d, nm) ==
    LET k == CHOOSE k \in 1..Len(d.items) : d.items[k].name = nm
    IN  d.items[k].value
DictHas(d, nm) == \E k \in 1..Len(d.items) : d.items[k].name = nm

(***************************************************************************)
(* TimeSCons.__init__: self.variables, self.calibrate_variables and        *)
(* self.calibrate from the keyword arguments and the environment.          *)
(***************************************************************************)
\* one pass of the loop body at lines 56-68 over an item
InitValue(env, item) ==
    LET value == IF item.name \in DOMAIN env THEN PyStr(env[item.name])
                 ELSE item.value
    IN  IF ~IntRaises(value) THEN IntOf(value)
        ELSE IF ~FloatRaises(value) THEN FloatOf(value)
        ELSE value

InitNumeric(env, item) ==
    LET value == IF item.name \in DOMAIN env THEN PyStr(env[item.name])
                 ELSE item.value
    IN  ~IntRaises(value) \/ ~FloatRaises(value)

InitVariables(kwVariables, env) ==
    IF kwVariables.type = "None" THEN PyNone
    ELSE PyDict([k \in 1..Len(kwVariables.items) |->
                    [name |-> kwVariables.items[k].name,
                     value |-> InitValue(env, kwVariables.items[k])]])

RECURSIVE NumericNames(_, _)
NumericNames(items, env) ==
    IF items = <<>> THEN <<>>
    ELSE (IF InitNumeric(env, Head(items)) THEN <<Head(items).name>> ELSE <<>>)
            \o NumericNames(Tail(items), env)

InitCalibrateVariables(kwVariables, kwCalibrate, env) ==
    IF kwCalibrate.type = "None"
    THEN IF kwVariables.type = "None" THEN <<>>
         ELSE NumericNames(kwVariables.items, env)
    ELSE kwCalibrate.items

\* os.environ.get('TIMESCONS_CALIBRATE', '0') != '0'
InitCalibrate(env) ==
    (IF "TIMESCONS_CALIBRATE" \in DOMAIN env THEN env["TIMESCONS_CALIBRATE"]
     ELSE <<"0">>) # <<"0">>

(***************************************************************************)
(* Keyword dicts of main() and its phases.  Only the 'options' key is      *)
(* followed: [has, options].                                                *)
(***************************************************************************)
NoOptions == [has |-> FALSE, options |-> <<>>]
WithOptions(o) == [has |-> TRUE, options |-> o]

HelpOption == <<" ", "--help">>
DebugOption == <<" ", "--debug=memory,time">>

\* ' '.join('%s=%s' % (variable, value) for ...)
RECURSIVE JoinVariables(_)
JoinVariables(items) ==
    IF items = <<>> THEN <<>>
    ELSE LET one == <<Head(items).name, "=">> \o PyStrOf(Head(items).value)
         IN  IF Tail(items) = <<>> THEN one
             ELSE one \o <<" ">> \o JoinVariables(Tail(items))

\* main(), lines 109-113
MainOptions(kw, vs) ==
    IF ~kw.has /\ vs.type = "dict" /\ vs.items # <<>>
    THEN WithOptions(JoinVariables(vs.items))
    ELSE kw

\* TimeSCons.add_timing_options; additional = <<>> stands for None
add_timing_options(kw, additional) ==
    WithOptions((IF kw.has THEN kw.options ELSE <<>>) \o additional
                    \o DebugOption)

\* (mutant) the callee works on the caller's dict
SharedCallKw(kw, calleeKw) == calleeKw

\* self.startup(*args, **kw): the callee gets its own dict; the caller's
\* kw after the call, given what the callee made of its copy
CallKw(kw, calleeKw) == kw

(***************************************************************************)
(* The log.                                                                *)
(***************************************************************************)
Call(method) == [ev |-> "call", method |-> method]
CallUptime(loadavg) == [ev |-> "call", method |-> "uptime", loadavg |-> loadavg]
CallMain(kw) == [ev |-> "call", method |-> "main", kw |-> kw]
Ran(phase, kw, status, arguments, outcome) ==
    [ev |-> "run", phase |-> phase, options |-> kw.options,
     status |-> status, arguments |-> arguments,
     exit |-> outcome.exit, stdout |-> outcome.stdout]
Echo(phase) == [ev |-> "echo", phase |-> phase]
VariableLine(nm, v) == [ev |-> "VARIABLE", name |-> nm, value |-> v]
ElapsedLine(of) == [ev |-> "ELAPSED", value |-> of]

\* TimeSCons.trace
trace(graph, name, value, units, sort) ==
    [ev |-> "TRACE", graph |-> graph, name |-> name, value |-> value,
     units |-> units, sort |-> sort]

\* TimeSCons.elapsed_time: endTime - startTime of the most recent command
elapsed_time(last) == [type |-> "elapsed", int |-> 0, str |-> <<last>>]

RECURSIVE StatTraces(_, _, _)
StatTraces(tr, stats, i) ==
    IF i > Len(StatList) THEN <<>>
    ELSE (IF StatList[i].name \in DOMAIN stats
          THEN <<trace(StatList[i].name, tr, stats[StatList[i].name].value,
                       stats[StatList[i].name].units, PyNone)>>
          ELSE <<>>) \o StatTraces(tr, stats, i + 1)

\* TimeSCons.report_traces: the lines it writes
report_traces(tr, stats, last) ==
    <<trace("TimeSCons-elapsed", tr, elapsed_time(last), "seconds", PyInt(0))>>
        \o StatTraces(tr, stats, 1)

\* del stats[name]
DictDel(stats, nm) == [k \in DOMAIN stats \ {nm} |-> stats[k]]

\* the three self.trace('<graph>', ..., **stats['memory-...']) calls, up to
\* the first KeyError
RECURSIVE MemoryTraces(_, _, _)
MemoryTraces(graph, stats, todo) ==
    IF todo = <<>> \/ Head(todo)[1] \notin DOMAIN stats THEN <<>>
    ELSE <<trace(graph, Head(todo)[2], stats[Head(todo)[1]].value,
                 stats[Head(todo)[1]].units, PyNone)>>
            \o MemoryTraces(graph, stats, Tail(todo))

MemoryOrder ==
    << <<"memory-initial", "initial">>, <<"memory-prebuild", "prebuild">>,
       <<"memory-final", "final">> >>

(***************************************************************************)
(* SpecStats: collect_stats applied to a text.  Init draws the text: up to *)
(* MaxLines lines, each a marker phrase followed by one of the sample      *)
(* remainders and a newline, or a bare number line.                        *)
(***************************************************************************)
MaxLines == 2

Markers == {StatList[i].marker : i \in 1..Len(StatList)}

Rests ==
    { <<" ", "3", "0", "0", "0">>,
      <<"2", "0", "4", "8">>,
      <<" ", "0", ".", "0", "0", " ", "seconds">>,
      <<" ", " ", "1", ".", "5", " ", "seconds">>,
      <<" ", "1", ".", "2", ".", "3", " ", "seconds">>,
      <<>> }

RawRests == { <<" ", "3", "0", "0", "0">>, <<"2", "0", "4", "8">> }

Lines ==
    {<<m>> \o r \o <<NL>> : m \in Markers, r \in Rests}
        \cup {r \o <<NL>> : r \in RawRests}

RECURSIVE Flatten(_)
Flatten(ls) == IF ls = <<>> THEN <<>> ELSE Head(ls) \o Flatten(Tail(ls))

Texts == {Flatten(ls) : ls \in UNION {[1..n -> Lines] : n \in 0..MaxLines}}

IdleCopy ==
    /\ tree = {} /\ dest = {} /\ walk = <<>> /\ visited = {} /\ cpc = "idle"
    /\ cerr = "none"
IdleTypes == obj = "none" /\ called = <<"none", "none">> /\ answer = [raised |-> FALSE, value |-> FALSE]
IdleMain ==
    /\ pc = "idle" /\ err = "none" /\ variables = PyNone
    /\ calibrate_variables = <<>> /\ calibrate = FALSE /\ mainKw = NoOptions
    /\ lastRun = "none" /\ log = <<>>
IdleStats == input = <<>> /\ result = <<>> /\ spc = "idle"

InitStats ==
    /\ input \in Texts
    /\ result = <<>>
    /\ spc = "ready"
    /\ statList = StatList
    /\ IdleCopy /\ IdleTypes /\ IdleMain

\* stats = self.collect_stats(self.stdout())
CollectStats ==
    /\ spc = "ready"
    /\ result' = collect_stats(input)
    /\ spc' = "done"
    /\ UNCHANGED <<input, statList, mainVars, copyVars, typesVars>>

NextStats == CollectStats

SpecStats == InitStats /\ [][NextStats]_vars

(***************************************************************************)
(* What a Stat expression matches, stated on the text itself: the marker   *)
(* at position i, a whitespace symbols, n class symbols, then the tail.    *)
(***************************************************************************)
Shape(stat, text, i, a, n) ==
    /\ i + a + n <= Len(text)
    /\ text[i] = stat.marker
    /\ a >= 1 /\ n >= 1
    /\ \A k \in 1..a : text[i + k] \in Space
    /\ \A k \in 1..n : text[i + a + k] \in stat.class
    /\ LiteralAt(text, i + a + n + 1, stat.tail)

MarkerAt(stat, text) == {i \in 1..Len(text) : text[i] = stat.marker}

MatchesAt(stat, text, i) ==
    \E a \in 1..(Len(text) - i) : \E n \in 1..(Len(text) - i - a) :
        Shape(stat, text, i, a, n)

Matches(stat, text) == \E i \in MarkerAt(stat, text) : MatchesAt(stat, text, i)

\* the number text on the first place the expression matches: leftmost i,
\* then the longest whitespace and the longest number re's greed allows
FirstNumber(stat, text) ==
    LET at == {p \in MarkerAt(stat, text) : MatchesAt(stat, text, p)}
        i  == CHOOSE p \in at : \A q \in at : p <= q
        as == {x \in 1..(Len(text) - i) :
                  \E n \in 1..(Len(text) - i - x) : Shape(stat, text, i, x, n)}
        a  == CHOOSE x \in as : \A y \in as : y <= x
        ns == {x \in 1..(Len(text) - i - a) : Shape(stat, text, i, a, x)}
        n  == CHOOSE x \in ns : \A y \in ns : y <= x
    IN  SubSeq(text, i + a + 1, i + a + n)

MarkerOccurs(stat, text) == MarkerAt(stat, text) # {}

\* C3 as stated: for every stat of StatList, collect_stats(input) has an
\* entry under the stat's name exactly when the stat's marker line occurs in
\* the input, and the entry's value is a number: the literal number of the
\* first matching line, floor-divided by 1024 for the three memory stats
\* (units kbytes), as it stands for the four time stats (units seconds);
\* StatList is not modified.
C3_AsStated ==
    spc = "done" =>
        /\ statList = StatList
        /\ \A i \in 1..Len(StatList) :
              LET stat == StatList[i] IN
              /\ stat.name \in DOMAIN result <=> MarkerOccurs(stat, input)
              /\ stat.name \in DOMAIN result =>
                    /\ result[stat.name].value.type \in {"int", "float"}
                    /\ result[stat.name].units =
                          (IF stat.name \in MemoryStats THEN "kbytes" ELSE "seconds")

\* C3 amended: for every stat of StatList, collect_stats(input) has an entry
\* under the stat's name exactly when the stat's expression (marker,
\* whitespace, number, and ' seconds' for a time stat) matches somewhere in
\* the input; the value comes from the first match: for a memory stat the
\* int k with k*1024 <= number < (k+1)*1024 and units kbytes, for a time stat
\* the matched text itself, a str and not a number, and units seconds;
\* StatList is not modified.
C3_CollectStats ==
    spc = "done" =>
        /\ statList = StatList
        /\ DOMAIN result \subseteq StatNames
        /\ \A i \in 1..Len(StatList) :
              LET stat == StatList[i] IN
              /\ stat.name \in DOMAIN result <=> Matches(stat, input)
              /\ stat.name \in DOMAIN result =>
                    LET v   == result[stat.name].value
                        num == FirstNumber(stat, input)
                    IN  IF stat.name \in MemoryStats
                        THEN /\ v.type = "int"
                             /\ v.int * 1024 <= PyIntOf(num)
                             /\ PyIntOf(num) < (v.int + 1) * 1024
                             /\ result[stat.name].units = "kbytes"
                        ELSE /\ v.type = "str"
                             /\ v.str = num
                             /\ result[stat.name].units = "seconds"

\* a text where two lines match one memory stat: the first one counts
C3_Witness ==
    /\ spc = "done"
    /\ "memory-final" \in DOMAIN result
    /\ result["memory-final"].value = PyInt(2)
    /\ \E i, j \in 1..Len(input) :
          /\ i < j /\ j + 2 <= Len(input)
          /\ input[i] = StatList[3].marker
          /\ input[j] = StatList[3].marker
          /\ input[j + 2] = "0"

(***************************************************************************)
(* The world the harness runs in: the constructor's keyword arguments, the *)
(* environment, main()'s 'options' keyword, /proc/loadavg, and what an     *)
(* invocation of the tool exits with and prints.                           *)
(***************************************************************************)
Item(nm, v) == [name |-> nm, value |-> v]

VariablesArgs ==
    { PyNone,
      PyDict(<< Item("A", PyInt(5)), Item("B", PyStr(<<"x">>)) >>) }

CalibrateArgs ==
    { PyNone, PyDict(<<>>), PyDict(<<"A">>), PyDict(<<"C">>) }

Environments ==
    { <<>>,
      [n \in {"A"} |-> <<"1", ".", "5">>],
      [n \in {"TIMESCONS_CALIBRATE"} |-> <<"0">>],
      [n \in {"TIMESCONS_CALIBRATE"} |-> <<"1">>],
      [n \in {"A", "TIMESCONS_CALIBRATE"} |->
          IF n = "A" THEN <<"7">> ELSE <<"1">>] }

OptionsArgs == { NoOptions, WithOptions(<<"-j2">>) }

LoadAvgAbsent == <<>>
LoadAvgs == { LoadAvgAbsent, <<"0.10", "0.20", "0.30", "1/100", "4242">> }

Exits == {0, 2}

MemoryRest == <<" ", "2", "0", "4", "8">>
TimeRest == <<" ", "1", ".", "5", " ", "seconds">>
CommandRests ==
    { <<" ", "0", ".", "0", "0", " ", "seconds">>,
      <<" ", "0", " ", "seconds">>,
      TimeRest,
      <<" ", "1", ".", "2", ".", "3", " ", "seconds">> }

RECURSIVE OutputFrom(_, _, _)
OutputFrom(i, missing, commandRest) ==
    IF i > Len(StatList) THEN <<>>
    ELSE (IF StatList[i].name \in missing THEN <<>>
          ELSE <<StatList[i].marker>>
                \o (IF StatList[i].name \in MemoryStats THEN MemoryRest
                    ELSE IF StatList[i].name = "time-commands" THEN commandRest
                    ELSE TimeRest)
                \o <<NL>>)
            \o OutputFrom(i + 1, missing, commandRest)

Died == <<"T", "r", "a", "c", "e", "b", "a", "c", "k", NL>>

ToolOutputs ==
    {OutputFrom(1, {}, r) : r \in CommandRests}
        \cup {OutputFrom(1, {m}, TimeRest) : m \in StatNames}
        \cup {Died}

ToolOutcomes == [exit : Exits, stdout : ToolOutputs]

\* self.collect_stats(self.stdout()) for each thing the tool may print
StdoutStats == [text \in ToolOutputs |-> collect_stats(text)]

\* TestSCons.run / up_to_date: the test is failed when the exit status is
\* checked (status is not None) and differs from the expected 0
RunFails(status, outcome) == status.type # "None" /\ outcome.exit # status.int

Raise(e) == pc' = "raised" /\ err' = e

(***************************************************************************)
(* TimeSCons.__init__                                                      *)
(***************************************************************************)
Construct ==
    /\ pc = "new"
    /\ \E kwVariables \in VariablesArgs, kwCalibrate \in CalibrateArgs,
          env \in Environments :
          /\ variables' = InitVariables(kwVariables, env)
          /\ calibrate_variables' =
                InitCalibrateVariables(kwVariables, kwCalibrate, env)
          /\ calibrate' = InitCalibrate(env)
    /\ pc' = "main"
    /\ UNCHANGED <<err, mainKw, lastRun, log, statsVars, copyVars, typesVars>>

(***************************************************************************)
(* TimeSCons.main, up to the branch                                        *)
(***************************************************************************)
\* (mutant) the timing branch without uptime()
MainBranch_no_uptime(cal) == IF cal THEN "calibration" ELSE "startup"

\* (mutant) the branches the wrong way round
MainBranch_swapped(cal) == IF cal THEN "uptime" ELSE "calibration"

\* main(), lines 114-117: what it calls first
MainBranch(cal) == IF cal THEN "calibration" ELSE "uptime"

Main ==
    /\ pc = "main"
    /\ \E kw \in OptionsArgs :
          /\ mainKw' = MainOptions(kw, variables)
          /\ log' = log \o <<CallMain(kw)>>
    /\ pc' = MainBranch(calibrate)
    /\ UNCHANGED <<err, variables, calibrate_variables, calibrate, lastRun,
                   statsVars, copyVars, typesVars>>

\* fp.readline().split(" ")[:3], the file holding at least three fields
LoadAvgTraces(fields) ==
    << trace("load-average", "average1", PyStr(<<fields[1]>>), "processes", PyNone),
       trace("load-average", "average5", PyStr(<<fields[2]>>), "processes", PyNone),
       trace("load-average", "average15", PyStr(<<fields[3]>>), "processes", PyNone) >>

\* (mutant) a missing /proc/loadavg is not caught
UptimeRaises_uncaught(loadavg) == loadavg = LoadAvgAbsent

\* uptime(): open() raising EnvironmentError is caught, nothing else raises
UptimeRaises(loadavg) == FALSE

\* TimeSCons.uptime
Uptime ==
    /\ pc = "uptime"
    /\ \E loadavg \in LoadAvgs :
          IF UptimeRaises(loadavg)
          THEN Raise("EnvironmentError") /\ log' = log \o <<CallUptime(loadavg)>>
          ELSE /\ log' = log \o <<CallUptime(loadavg)>>
                            \o (IF loadavg = LoadAvgAbsent THEN <<>>
                                ELSE LoadAvgTraces(loadavg))
               /\ pc' = "startup" /\ UNCHANGED err
    /\ UNCHANGED <<variables, calibrate_variables, calibrate, mainKw, lastRun,
                   statsVars, copyVars, typesVars>>

\* TimeSCons.startup
Startup ==
    /\ pc = "startup"
    /\ \E outcome \in ToolOutcomes :
       \E stats \in {StdoutStats[outcome.stdout]} :
          LET kw    == add_timing_options(mainKw, HelpOption)
              ran   == <<Call("startup"), Ran("startup", kw, PyNone, "", outcome)>>
              echo  == <<Echo("startup"), Call("collect_stats")>>
          IN  /\ mainKw' = CallKw(mainKw, kw)
              /\ IF RunFails(PyNone, outcome)
                 THEN Raise("fail_test") /\ log' = log \o ran
                 ELSE IF "time-commands" \notin DOMAIN stats
                 THEN Raise("KeyError") /\ log' = log \o ran \o echo
                 ELSE /\ log' = log \o ran \o echo
                            \o report_traces("startup",
                                   DictDel(stats, "time-commands"), "startup")
                      /\ pc' = "full" /\ UNCHANGED err
    /\ lastRun' = "startup"
    /\ UNCHANGED <<variables, calibrate_variables, calibrate, statsVars,
                   copyVars, typesVars>>

\* TimeSCons.full
Full ==
    /\ pc = "full"
    /\ \E outcome \in ToolOutcomes :
       \E stats \in {StdoutStats[outcome.stdout]} :
          LET kw    == add_timing_options(mainKw, <<>>)
              ran   == <<Call("full"), Ran("full", kw, PyInt(0), "", outcome)>>
              out   == ran \o <<Echo("full"), Call("collect_stats")>>
                           \o report_traces("full", stats, "full")
                           \o MemoryTraces("full-memory", stats, MemoryOrder)
          IN  /\ mainKw' = CallKw(mainKw, kw)
              /\ IF RunFails(PyInt(0), outcome)
                 THEN Raise("fail_test") /\ log' = log \o ran
                 ELSE /\ log' = log \o out
                      /\ IF MemoryStats \subseteq DOMAIN stats
                         THEN pc' = "null" /\ UNCHANGED err
                         ELSE Raise("KeyError")
    /\ lastRun' = "full"
    /\ UNCHANGED <<variables, calibrate_variables, calibrate, statsVars,
                   copyVars, typesVars>>

\* TimeSCons.null
Null ==
    /\ pc = "null"
    /\ \E outcome \in ToolOutcomes :
       \E stats \in {StdoutStats[outcome.stdout]} :
          LET kw    == add_timing_options(mainKw, <<>>)
              ran   == <<Call("null"), Ran("null", kw, PyInt(0), ".", outcome)>>
              echo  == <<Echo("null"), Call("collect_stats")>>
              kept  == IF FloatIsZero(stats["time-commands"].value)
                       THEN DictDel(stats, "time-commands") ELSE stats
              out   == ran \o echo
                           \o report_traces("null", kept, "null")
                           \o MemoryTraces("null-memory", kept, MemoryOrder)
          IN  /\ mainKw' = CallKw(mainKw, kw)
              /\ IF RunFails(PyInt(0), outcome)
                 THEN Raise("fail_test") /\ log' = log \o ran
                 ELSE IF "time-commands" \notin DOMAIN stats
                 THEN Raise("KeyError") /\ log' = log \o ran \o echo
                 ELSE IF FloatRaises(stats["time-commands"].value)
                 THEN Raise("ValueError") /\ log' = log \o ran \o echo
                 ELSE /\ log' = log \o out
                      /\ IF MemoryStats \subseteq DOMAIN stats
                         THEN pc' = "done" /\ UNCHANGED err
                         ELSE Raise("KeyError")
    /\ lastRun' = "null"
    /\ UNCHANGED <<variables, calibrate_variables, calibrate, statsVars,
                   copyVars, typesVars>>

\* the VARIABLE lines of calibration(), up to the first self.variables[variable]
\* that raises
RECURSIVE VariableLines(_, _)
VariableLines(vs, names) ==
    IF names = <<>> \/ vs.type = "None" \/ ~DictHas(vs, Head(names)) THEN <<>>
    ELSE <<VariableLine(Head(names), DictGet(vs, Head(names)))>>
            \o VariableLines(vs, Tail(names))

\* what self.variables[variable] raises over the names, "none" if nothing
VariablesRaise(vs, names) ==
    IF names = <<>> THEN "none"
    ELSE IF vs.type = "None" THEN "TypeError"
    ELSE IF \E k \in 1..Len(names) : ~DictHas(vs, names[k]) THEN "KeyError"
    ELSE "none"

\* TimeSCons.calibration
Calibration ==
    /\ pc = "calibration"
    /\ \E outcome \in ToolOutcomes :
          LET kw  == add_timing_options(mainKw, <<>>)
              ran == <<Call("calibration"),
                       Ran("calibration", kw, PyInt(0), "", outcome)>>
              e   == VariablesRaise(variables, calibrate_variables)
          IN  /\ mainKw' = CallKw(mainKw, kw)
              /\ IF RunFails(PyInt(0), outcome)
                 THEN Raise("fail_test") /\ log' = log \o ran
                 ELSE IF e # "none"
                 THEN /\ Raise(e)
                      /\ log' = log \o ran
                            \o VariableLines(variables, calibrate_variables)
                 ELSE /\ log' = log \o ran
                            \o VariableLines(variables, calibrate_variables)
                            \o <<ElapsedLine(elapsed_time("calibration"))>>
                      /\ pc' = "done" /\ UNCHANGED err
    /\ lastRun' = "calibration"
    /\ UNCHANGED <<variables, calibrate_variables, calibrate, statsVars,
                   copyVars, typesVars>>

Init ==
    /\ pc = "new" /\ err = "none" /\ variables = PyNone
    /\ calibrate_variables = <<>> /\ calibrate = FALSE /\ mainKw = NoOptions
    /\ lastRun = "none" /\ log = <<>>
    /\ IdleStats /\ statList = StatList /\ IdleCopy /\ IdleTypes

Next ==
    \/ Construct
    \/ Main
    \/ Uptime
    \/ Startup
    \/ Full
    \/ Null
    \/ Calibration

Spec == Init /\ [][Next]_vars

(***************************************************************************)
(* Reading the log.                                                        *)
(***************************************************************************)
IsRun(e) == e.ev = "run"
IsTrace(e) == e.ev = "TRACE"
IsWritten(e) == e.ev \in {"TRACE", "VARIABLE", "ELAPSED", "echo"}

Runs == SelectSeq(log, IsRun)
RunAt(phase) == {k \in 1..Len(log) : log[k].ev = "run" /\ log[k].phase = phase}
CallAt(method) ==
    {k \in 1..Len(log) : log[k].ev = "call" /\ log[k].method = method}
TraceAt == {k \in 1..Len(log) : log[k].ev = "TRACE"}

\* the phase a TRACE line belongs to
TraceOwner(e) ==
    CASE e.graph = "load-average" -> "uptime"
      [] e.graph = "full-memory" -> "full"
      [] e.graph = "null-memory" -> "null"
      [] OTHER -> e.name

TracesOf(phase) == {k \in TraceAt : TraceOwner(log[k]) = phase}

Terminal == pc \in {"done", "raised"}

PrintsAllSeven(text) == \A i \in 1..Len(StatList) : Matches(StatList[i], text)
PrintsNone(text) == \A i \in 1..Len(StatList) : ~Matches(StatList[i], text)
PassesCheck(run) == run.status.type = "None" \/ run.exit = run.status.int

\* a text of digits with at most one dot: a number
DecimalText(s) ==
    /\ \E k \in 1..Len(s) : s[k] \in Digits
    /\ \A j, k \in 1..Len(s) : (s[j] = "." /\ s[k] = ".") => j = k
    /\ \A k \in 1..Len(s) : s[k] \in Digits \cup {"."}
\* a number that is 0
ZeroText(s) == DecimalText(s) /\ \A k \in 1..Len(s) : s[k] \in Digits => s[k] = "0"

EndsWithDebug(o) == Len(o) >= 2 /\ SubSeq(o, Len(o) - 1, Len(o)) = DebugOption
Count(o, sym) == Cardinality({k \in 1..Len(o) : o[k] = sym})

ThreeRunsInOrder ==
    /\ [k \in 1..Len(Runs) |-> Runs[k].phase] = <<"startup", "full", "null">>
    /\ CallAt("calibration") = {}
    /\ \E u \in CallAt("uptime") : \A k \in 1..Len(log) : IsRun(log[k]) => u < k
    /\ \A ph \in {"startup", "full", "null"} :
          /\ TracesOf(ph) # {}
          /\ \A t \in TracesOf(ph) :
                /\ \E r \in RunAt(ph) : r < t
                /\ \A r \in RunAt("full") \cup RunAt("null") :
                      (ph = "startup" \/ (ph = "full" /\ log[r].phase = "null"))
                          => t < r

\* C1 as stated: with calibration off and every tool run printing all seven
\* statistics lines, main() makes exactly the three invocations startup,
\* full, null in that order after uptime(), each phase's TRACE lines lie
\* between its invocation and the next one, and calibration() is not called.
C1_AsStated ==
    (Terminal /\ ~calibrate
        /\ \A k \in 1..Len(Runs) : PrintsAllSeven(Runs[k].stdout))
    => ThreeRunsInOrder

\* C1 amended: the same, for runs that also pass the harness's exit-status
\* check and, in the null run, print a time-commands number float() accepts.
C1_ThreeRuns ==
    (Terminal /\ ~calibrate
        /\ \A k \in 1..Len(Runs) :
              /\ PrintsAllSeven(Runs[k].stdout)
              /\ PassesCheck(Runs[k])
              /\ Runs[k].phase = "null" =>
                    DecimalText(FirstNumber(StatList[6], Runs[k].stdout)))
    => (ThreeRunsInOrder /\ pc = "done" /\ err = "none")

C1_Witness ==
    /\ pc = "done" /\ ~calibrate /\ Len(Runs) = 3
    /\ \A k \in 1..3 : PrintsAllSeven(Runs[k].stdout)
    /\ TracesOf("uptime") # {}

\* C2: a startup run that exits non-zero, or prints none of the statistics
\* lines, raises nothing in startup(), and main() goes on to full().
C2_StartupFailureTolerated ==
    (lastRun = "startup"
        /\ \E k \in RunAt("startup") :
              log[k].exit # 0 \/ PrintsNone(log[k].stdout))
    => (pc = "full" /\ err = "none")

WrittenLines == SelectSeq(log, IsWritten)

CalibrationShape ==
    /\ Len(Runs) = 1
    /\ Runs[1].phase = "calibration"
    /\ EndsWithDebug(Runs[1].options)
    /\ Count(Runs[1].options, "--help") = 0
    /\ TraceAt = {}
    /\ CallAt("uptime") = {} /\ CallAt("collect_stats") = {}
    /\ CallAt("startup") = {} /\ CallAt("null") = {} /\ CallAt("full") = {}

CalibrationOutput ==
    /\ err = "none"
    /\ Len(WrittenLines) = Len(calibrate_variables) + 1
    /\ \A k \in 1..Len(calibrate_variables) :
          /\ WrittenLines[k].ev = "VARIABLE"
          /\ WrittenLines[k].name = calibrate_variables[k]
          /\ \E j \in 1..Len(variables.items) :
                /\ variables.items[j].name = calibrate_variables[k]
                /\ variables.items[j].value = WrittenLines[k].value
    /\ WrittenLines[Len(WrittenLines)].ev = "ELAPSED"

\* C5 as stated: in calibration mode main() makes exactly one invocation (a
\* full build with the timing options, no --help), writes one VARIABLE line
\* per entry of calibrate_variables and then one ELAPSED line and nothing
\* else, calls neither uptime() nor collect_stats(), and raises no error
\* whatever the 'variables' and 'calibrate' constructor arguments were
\* (for an invocation that returns to calibration()).
C5_AsStated ==
    (Terminal /\ calibrate /\ \A k \in 1..Len(Runs) : PassesCheck(Runs[k]))
    => (CalibrationShape /\ CalibrationOutput)

\* C5 amended: the one invocation, the absence of TRACE lines and of calls
\* to uptime()/collect_stats() hold for every combination; no error and the
\* VARIABLE lines followed by the ELAPSED line hold when the invocation
\* passes the harness's exit-status check and every name of
\* calibrate_variables is a key of self.variables.
C5_Calibration ==
    (Terminal /\ calibrate) =>
        /\ CalibrationShape
        /\ \A k \in 1..Len(WrittenLines) :
              WrittenLines[k].ev \in {"VARIABLE", "ELAPSED"}
        /\ (/\ PassesCheck(Runs[1])
            /\ \A k \in 1..Len(calibrate_variables) :
                  /\ variables.type = "dict"
                  /\ \E j \in 1..Len(variables.items) :
                        variables.items[j].name = calibrate_variables[k])
           => CalibrationOutput

C5_Witness ==
    /\ pc = "done" /\ calibrate
    /\ calibrate_variables = <<"A">>
    /\ Len(WrittenLines) = 2
    /\ WrittenLines[1].ev = "VARIABLE"

\* C7: /proc/loadavg may be missing.  Then uptime() writes no TRACE line and
\* raises nothing; when the file is there it writes exactly the three
\* load-average lines average1, average5, average15, in that order, before
\* any tool invocation.  Either way startup() is what main() calls next.
C7_UptimeTolerant ==
    /\ err # "EnvironmentError"
    /\ pc \notin {"new", "main", "uptime", "calibration"} /\ ~calibrate =>
          \E u \in CallAt("uptime") :
             LET la == TracesOf("uptime")
                 f  == log[u].loadavg
             IN  /\ CallAt("uptime") = {u}
                 /\ f = LoadAvgAbsent => la = {}
                 /\ f # LoadAvgAbsent =>
                       /\ la = {u + 1, u + 2, u + 3}
                       /\ \A k \in 1..3 :
                             /\ log[u + k].name =
                                   <<"average1", "average5", "average15">>[k]
                             /\ log[u + k].value = PyStr(<<f[k]>>)
                             /\ log[u + k].units = "processes"
                 /\ \A k \in 1..(u + Cardinality(la)) : ~IsRun(log[k])
                 /\ IF Len(log) = u + Cardinality(la)
                    THEN pc = "startup" /\ err = "none"
                    ELSE log[u + Cardinality(la) + 1] = Call("startup")

C7_Witness ==
    /\ pc = "done" /\ ~calibrate
    /\ TracesOf("uptime") = {}
    /\ Len(Runs) = 3

MissingMemory(text) == \E i \in 1..3 : ~Matches(StatList[i], text)
BadCommandTime(text) ==
    \/ ~Matches(StatList[6], text)
    \/ ~DecimalText(FirstNumber(StatList[6], text))
RaisedIn(phase) == pc = "raised" /\ lastRun = phase

NullTraces == SelectSeq(log, LAMBDA e : IsTrace(e) /\ TraceOwner(e) = "null")

\* C9: null() leaves the time-commands statistic out of the traces exactly
\* when its value is numerically 0; a non-zero one is traced with name
\* 'null'.  The TimeSCons-elapsed line (sort=0) comes first and the three
\* null-memory lines initial, prebuild, final come last.
C9_NullCommandTime ==
    \A r \in RunAt("null") :
        NullTraces # <<>> =>
            LET num == FirstNumber(StatList[6], log[r].stdout)
                n   == Len(NullTraces)
            IN  /\ NullTraces[1].graph = "TimeSCons-elapsed"
                /\ NullTraces[1].name = "null"
                /\ NullTraces[1].sort = PyInt(0)
                /\ (\E k \in 1..n : /\ NullTraces[k].graph = "time-commands"
                                    /\ NullTraces[k].name = "null"
                                    /\ NullTraces[k].value = PyStr(num))
                      <=> ~ZeroText(num)
                /\ pc = "done" =>
                      /\ n >= 4
                      /\ \A k \in 1..3 :
                            /\ NullTraces[n - 3 + k].graph = "null-memory"
                            /\ NullTraces[n - 3 + k].name =
                                  <<"initial", "prebuild", "final">>[k]

C9_Witness ==
    /\ pc = "done"
    /\ \E k \in 1..Len(NullTraces) : NullTraces[k].graph = "time-commands"

\* C10: outside calibration mode every invocation's options are the base
\* (main()'s 'options' keyword if given, else the name=value pairs of
\* self.variables joined by spaces), then ' --help' for startup only, then
\* ' --debug=memory,time' exactly once, last; nothing a phase added shows
\* in a later phase's options or in main()'s own keyword arguments.
C10_OptionsPerPhase ==
    ~calibrate =>
        \A m \in CallAt("main") :
            LET base == IF log[m].kw.has THEN log[m].kw.options
                        ELSE IF variables.type = "dict"
                        THEN JoinVariables(variables.items)
                        ELSE <<>>
            IN  /\ mainKw.options = base
                /\ \A k \in 1..Len(Runs) :
                      /\ Runs[k].options =
                            base \o (IF Runs[k].phase = "startup"
                                     THEN HelpOption ELSE <<>>) \o DebugOption
                      /\ Count(Runs[k].options, "--debug=memory,time") = 1
                      /\ Count(Runs[k].options, "--help") =
                            (IF Runs[k].phase = "startup" THEN 1 ELSE 0)

C10_Witness ==
    /\ pc = "done" /\ ~calibrate /\ Len(Runs) = 3
    /\ \E m \in CallAt("main") : ~log[m].kw.has
    /\ variables.type = "dict"
    /\ Runs[1].options =
          <<"A", "=", "5", " ", "B", "=", "x", " ", "--help", " ",
            "--debug=memory,time">>
    /\ Runs[3].options =
          <<"A", "=", "5", " ", "B", "=", "x", " ", "--debug=memory,time">>

(***************************************************************************)
(* bench/is_types.py.  A class is named by a string; Bases gives its       *)
(* proper ancestors.  The User* classes of collections do not derive from  *)
(* the builtins.                                                           *)
(***************************************************************************)
Builtins == {"str", "list", "dict"}
UserClasses == {"UserString", "UserList", "UserDict"}
Classes ==
    Builtins \cup UserClasses
        \cup {"StrSub", "ListSub", "DictSub", "UserStringSub", "UserListSub",
              "UserDictSub", "A"}

Bases(c) ==
    CASE c = "StrSub" -> {"str"}
      [] c = "ListSub" -> {"list"}
      [] c = "DictSub" -> {"dict"}
      [] c = "UserStringSub" -> {"UserString"}
      [] c = "UserListSub" -> {"UserList"}
      [] c = "UserDictSub" -> {"UserDict"}
      [] OTHER -> {}

\* an object is an instance of its class; type(e)
type(e) == e
\* isinstance(e, classes)
isinstance(e, classes) == ({type(e)} \cup Bases(type(e))) \cap classes # {}

Returned(b) == [raised |-> FALSE, value |-> b]
AttributeError == [raised |-> TRUE, value |-> FALSE]

DictType == "dict"
ListType == "list"
StringType == "str"

original_is_Dict(e) == Returned(isinstance(e, {"dict", "UserDict"}))
original_is_List(e) == Returned(isinstance(e, {"list", "UserList"}))
original_is_String(e) == Returned(isinstance(e, {"str", "UserString"}))

checkInstanceType_is_Dict(e) == Returned(isinstance(e, {"dict", "UserDict"}))
checkInstanceType_is_List(e) == Returned(isinstance(e, {"list", "UserList"}))
checkInstanceType_is_String(e) == Returned(isinstance(e, {"str", "UserString"}))

cache_type_e_is_Dict(e) ==
    LET t == type(e) IN Returned(t = "dict" \/ isinstance(e, {"UserDict"}))
cache_type_e_is_List(e) ==
    LET t == type(e) IN Returned(t = "list" \/ isinstance(e, {"UserList"}))
cache_type_e_is_String(e) ==
    LET t == type(e) IN Returned(t = "str" \/ isinstance(e, {"UserString"}))

global_cache_type_e_is_Dict(e) ==
    LET t == type(e) IN Returned(t = DictType \/ isinstance(e, {"UserDict"}))
global_cache_type_e_is_List(e) ==
    LET t == type(e) IN Returned(t = ListType \/ isinstance(e, {"UserList"}))
global_cache_type_e_is_String(e) ==
    LET t == type(e) IN Returned(t = StringType \/ isinstance(e, {"UserString"}))

\* the names the types module of Python 3 has that the file uses: none;
\* types.InstanceType went with old-style classes
TypesModule == {}

instanceTypeMap(c) ==
    CASE c = "UserDict" -> "dict" [] c = "UserList" -> "list"
      [] c = "UserString" -> "str" [] OTHER -> c

\* myType(obj): [raised, type]; evaluating types.InstanceType raises
myType(o) ==
    IF "InstanceType" \notin TypesModule
    THEN [raised |-> TRUE, type |-> "none"]
    ELSE [raised |-> FALSE,
          type |-> IF type(o) = "InstanceType" THEN instanceTypeMap(o)
                   ELSE type(o)]

myType_is_Dict(e) ==
    IF myType(e).raised THEN AttributeError ELSE Returned(myType(e).type = "dict")
myType_is_List(e) ==
    IF myType(e).raised THEN AttributeError ELSE Returned(myType(e).type = "list")
myType_is_String(e) ==
    IF myType(e).raised THEN AttributeError ELSE Returned(myType(e).type = "str")

Families == {"original", "checkInstanceType", "cache_type_e",
             "global_cache_type_e", "myType"}
Kinds == {"Dict", "List", "String"}
Predicates == Families \X Kinds

Apply(p, e) ==
    CASE p = <<"original", "Dict">> -> original_is_Dict(e)
      [] p = <<"original", "List">> -> original_is_List(e)
      [] p = <<"original", "String">> -> original_is_String(e)
      [] p = <<"checkInstanceType", "Dict">> -> checkInstanceType_is_Dict(e)
      [] p = <<"checkInstanceType", "List">> -> checkInstanceType_is_List(e)
      [] p = <<"checkInstanceType", "String">> -> checkInstanceType_is_String(e)
      [] p = <<"cache_type_e", "Dict">> -> cache_type_e_is_Dict(e)
      [] p = <<"cache_type_e", "List">> -> cache_type_e_is_List(e)
      [] p = <<"cache_type_e", "String">> -> cache_type_e_is_String(e)
      [] p = <<"global_cache_type_e", "Dict">> -> global_cache_type_e_is_Dict(e)
      [] p = <<"global_cache_type_e", "List">> -> global_cache_type_e_is_List(e)
      [] p = <<"global_cache_type_e", "String">> -> global_cache_type_e_is_String(e)
      [] p = <<"myType", "Dict">> -> myType_is_Dict(e)
      [] p = <<"myType", "List">> -> myType_is_List(e)
      [] p = <<"myType", "String">> -> myType_is_String(e)

InitTypes ==
    /\ obj \in Classes
    /\ called = <<"none", "none">>
    /\ answer = Returned(FALSE)
    /\ IdleMain /\ IdleStats /\ statList = StatList /\ IdleCopy

\* one call of a predicate on the object
CallPredicate ==
    /\ \E p \in Predicates :
          /\ called' = p
          /\ answer' = Apply(p, obj)
    /\ UNCHANGED <<obj, mainVars, statsVars, copyVars>>

NextTypes == CallPredicate

SpecTypes == InitTypes /\ [][NextTypes]_vars

\* C6: every variant returns, without raising, what the original predicate
\* of the same kind returns for the same object.
C6_Interchangeable ==
    called # <<"none", "none">> =>
        answer = Apply(<<"original", called[2]>>, obj)

(***************************************************************************)
(* copy_timing_configuration.  A file name is a sequence of symbols, a     *)
(* path a sequence of names, a tree a set of nodes [path, kind] closed     *)
(* under parent directories.  source_dir and dest_dir are one name each.   *)
(***************************************************************************)
MaxNodes == 3

Svn == <<".svn">>
Names == { Svn, <<"TimeSCons-", "out">>, <<"a">>, <<"b">> }
SourceDir == << <<"src">> >>
DestDir == << <<"work">> >>

Node(path, kind) == [path |-> path, kind |-> kind]
IsDir(t, path) == path = <<>> \/ Node(path, "dir") \in t
Exists(t, path) == path = <<>> \/ \E n \in t : n.path = path
Parent(path) == SubSeq(path, 1, Len(path) - 1)
ChildrenOf(t, root, kind) ==
    {n.path[Len(n.path)] : n \in {m \in t : /\ m.kind = kind
                                             /\ Len(m.path) = Len(root) + 1
                                             /\ Parent(m.path) = root}}

\* name.startswith('TimeSCons-')
StartsWithTimeSCons(name) == name # <<>> /\ Head(name) = "TimeSCons-"

\* str.replace(old, new) on paths: every occurrence of old, left to right
RECURSIVE Replace(_, _, _)
Replace(path, old, new) ==
    IF Len(path) < Len(old) THEN path
    ELSE IF SubSeq(path, 1, Len(old)) = old
    THEN new \o Replace(SubSeq(path, Len(old) + 1, Len(path)), old, new)
    ELSE <<Head(path)>> \o Replace(Tail(path), old, new)

\* where a path of the source tree lands: the path below dest_dir
Destination(rel) ==
    LET d == Replace(SourceDir \o rel, SourceDir, DestDir)
    IN  [under |-> SubSeq(d, 1, Len(DestDir)) = DestDir,
         rel |-> SubSeq(d, Len(DestDir) + 1, Len(d))]

Orderings(S) ==
    {f \in [1..Cardinality(S) -> S] :
        \A i, j \in 1..Cardinality(S) : f[i] = f[j] => i = j}

\* os.mkdir(destination) and shutil.copy2(source, destination), one after
\* the other until one raises: [tree, err]
RECURSIVE DoOps(_, _)
DoOps(ops, d) ==
    IF ops = <<>> THEN [tree |-> d, err |-> "none"]
    ELSE LET op == Head(ops)
             to == Destination(op.rel).rel
         IN  IF ~IsDir(d, Parent(to)) THEN [tree |-> d, err |-> "FileNotFoundError"]
             ELSE IF op.kind = "dir"
             THEN IF Exists(d, to) THEN [tree |-> d, err |-> "FileExistsError"]
                  ELSE DoOps(Tail(ops), d \cup {Node(to, "dir")})
             ELSE IF IsDir(d, to) THEN [tree |-> d, err |-> "IsADirectoryError"]
                  ELSE DoOps(Tail(ops), d \cup {Node(to, "file")})

\* the directories os.walk descends into: its own list, from which the
\* loop body removed '.svn' in place; line 276 rebinds the name dirs to a
\* new list and leaves os.walk's list as it was
WalkInto(dirs) == dirs \ {Svn}

\* the dirs and files the loop body works on (lines 274-277)
CopiedDirs(dirs) == {d \in dirs \ {Svn} : ~StartsWithTimeSCons(d)}
CopiedFiles(files) == {f \in files : ~StartsWithTimeSCons(f)}

InitCopy ==
    /\ tree = {} /\ dest = {} /\ walk = <<>> /\ visited = {}
    /\ cpc = "setup" /\ cerr = "none"
    /\ IdleMain /\ IdleStats /\ statList = StatList /\ IdleTypes

\* the test's author puts one more file or directory into the test directory
AddEntry ==
    /\ cpc = "setup"
    /\ Cardinality(tree) < MaxNodes
    /\ \E parent \in {<<>>} \cup {n.path : n \in {m \in tree : m.kind = "dir"}},
          name \in Names, kind \in {"file", "dir"} :
          /\ ~Exists(tree, parent \o <<name>>)
          /\ tree' = tree \cup {Node(parent \o <<name>>, kind)}
    /\ UNCHANGED <<dest, walk, visited, cpc, cerr, mainVars, statsVars, typesVars>>

\* copy_timing_configuration is called: os.walk(source_dir) starts at the top
StartCopy ==
    /\ cpc = "setup"
    /\ walk' = << <<>> >>
    /\ cpc' = "copy"
    /\ UNCHANGED <<tree, dest, visited, cerr, mainVars, statsVars, typesVars>>

\* one iteration of  for root, dirs, files in os.walk(source_dir)
CopyStep ==
    /\ cpc = "copy"
    /\ walk # <<>>
    /\ LET root  == Head(walk)
           dirs  == ChildrenOf(tree, root, "dir")
           files == ChildrenOf(tree, root, "file")
       IN  \E into \in Orderings(WalkInto(dirs)),
              ds \in Orderings(CopiedDirs(dirs)),
              fs \in Orderings(CopiedFiles(files)) :
              LET ops == [k \in 1..Len(ds) |->
                             [kind |-> "dir", rel |-> root \o <<ds[k]>>]]
                         \o [k \in 1..Len(fs) |->
                                [kind |-> "file", rel |-> root \o <<fs[k]>>]]
                  done == DoOps(ops, dest)
                  rest == [k \in 1..Len(into) |-> root \o <<into[k]>>]
                             \o Tail(walk)
              IN  /\ visited' = visited \cup {root}
                  /\ dest' = done.tree
                  /\ cerr' = done.err
                  /\ IF done.err # "none"
                     THEN cpc' = "raised" /\ walk' = walk
                     ELSE /\ walk' = rest
                          /\ cpc' = IF rest = <<>> THEN "done" ELSE "copy"
    /\ UNCHANGED <<tree, mainVars, statsVars, typesVars>>

NextCopy ==
    \/ AddEntry
    \/ StartCopy
    \/ CopyStep

SpecCopy == InitCopy /\ [][NextCopy]_vars

HasTimeSCons(path) == \E k \in 1..Len(path) : StartsWithTimeSCons(path[k])
UnderSvn(t, path) ==
    \E k \in 1..Len(path) :
        path[k] = Svn /\ Node(SubSeq(path, 1, k), "dir") \in t

\* C4: for every source tree the copy ends without an error and leaves in
\* dest_dir every file and directory of the tree but those that are, or lie
\* beneath, a '.svn' directory or an entry named 'TimeSCons-...'; and no
\* directory beneath which something lies excluded this way is listed.
C4_CopiesAllButExcluded ==
    cpc \in {"done", "raised"} =>
        /\ cpc = "done"
        /\ dest = {n \in tree : ~HasTimeSCons(n.path) /\ ~UnderSvn(tree, n.path)}
        /\ \A root \in visited :
              (HasTimeSCons(root) \/ UnderSvn(tree, root))
                  => \A n \in tree : Parent(n.path) # root

====
